---- MODULE Spec2Model ----
(***************************************************************************)
(* A model of the network command module of azure-cli                      *)
(* (azure/cli/command_modules/network/custom.py):                          *)
(*   - the list-keyed upsert helper _upsert,                               *)
(*   - the sub-resource create commands of load balancers and application  *)
(*     gateways, which get the parent, upsert into one of its collections  *)
(*     and submit the parent with create_or_update,                        *)
(*   - the zone transform export_zone / _build_record,                     *)
(*   - the DNS record removal _remove_record with dict_matches_filter,     *)
(*   - add_dns_txt_record and its 255-character chunks,                    *)
(*   - the VPN gateway root and revoked certificate commands,              *)
(*   - the ExpressRoute peering create and update commands,                *)
(*   - update_subnet with _set_route_table,                                *)
(*   - sequences of _upsert calls keyed by name,                           *)
(*   - the remote calls of import_zone.                                    *)
(* Each part has its own specification over the variables it uses; the     *)
(* other variables stay at their initial values.                           *)
(***************************************************************************)
EXTENDS Integers, Sequences, FiniteSets, Bags, TLC

VARIABLES
    \* _upsert as a function of its inputs
    collection,     \* the list _upsert works on
    u_pre,          \* the list as it was before the call
    u_call,         \* the arguments of the call, NoCall before it
    u_warn,         \* the number of warnings the call logged
    \* the service and the command invocations running against it
    svc,            \* parent name -> the parent resource the service holds
    pc,             \* invocation -> "start", "fetched" or "done"
    cmd,            \* invocation -> its command and arguments
    fetched,        \* invocation -> the parent as returned by get
    submitted,      \* invocation -> the parent handed to create_or_update
    outcome,        \* invocation -> "none", "ok" or "CLIError"
    log,            \* the remote calls, in the order the service saw them
    \* the zone transform applied to one record of a record set
    z_record,       \* the record of the exported record set
    z_pc,           \* "start", "exported" or "built"
    z_obj,          \* the field dictionary export_zone appends for the record
    z_built,        \* what _build_record returns for that dictionary
    \* one record set of a DNS zone and the remove commands run on it
    d_svc,          \* the record set the service holds, if it holds it
    d_pre,          \* what the service held before the last invocation
    d_req,          \* the last invocation's record and keep_empty_record_set
    d_outcome,      \* how the last invocation ended, "none" before the first
    d_writes,       \* the remote writes the last invocation issued
    \* add_dns_txt_record run once against a TXT record set
    t_svc,          \* the TXT record set the service holds, if it holds it
    t_value,        \* the value argument, a list of strings
    t_record,       \* record.value as handed to _add_save_record
    t_lens,         \* original_len and final_len of the assertion
    t_outcome,      \* "none" before the call, then "ok" or "AssertionError"
    \* one VPN gateway and a certificate command run on it
    g_svc,          \* the gateway the service holds
    g_pre,          \* the gateway the service held before the invocation
    g_call,         \* the command and its arguments, NoGwCall before it
    g_outcome,      \* "none", "ok" or the error the invocation raised
    g_writes,       \* the gateways handed to create_or_update
    \* one ExpressRoute circuit, one of its peerings and a peering command
    e_circuit,      \* the circuit express_route_circuits.get returns
    e_instance,     \* the peering update_express_route_peering is given
    e_call,         \* the command and its arguments, NoErCall before it
    e_outcome,      \* "none", "ok" or the error the invocation raised
    e_writes,       \* the peerings handed to client.create_or_update
    e_result,       \* the instance update_express_route_peering returns
    \* one subnet, the route tables of the service and an update_subnet command
    s_tables,       \* the route tables the service holds
    s_instance,     \* the subnet update_subnet is given
    s_call,         \* the arguments of the invocation, NoSubnetCall before it
    s_outcome,      \* "none", "ok" or "CloudError"
    s_result,       \* the subnet as update_subnet leaves it
    \* a collection with distinct names and a sequence of _upsert calls on it
    k_coll,         \* the collection
    k_prev,         \* the collection before the last call
    k_call,         \* the object of the last call, NoItem before the first
    k_calls,        \* the number of calls so far
    k_len0,         \* the length of the collection before the first call
    k_grown,        \* the number of calls whose key was not in the collection
    \* one run of import_zone from the record sets it grouped
    i_sets,         \* record_sets.values(), in iteration order
    i_pc,           \* "start", "loop", "done" or "raised"
    i_idx,          \* the position of the loop in i_sets
    i_log,          \* the remote calls so far, in order, with how each ended
    i_errors        \* the number of errors handed to logger.error

upsertVars == <<collection, u_pre, u_call, u_warn>>
lbVars == <<svc, pc, cmd, fetched, submitted, outcome, log>>
zoneVars == <<z_record, z_pc, z_obj, z_built>>
dnsVars == <<d_svc, d_pre, d_req, d_outcome, d_writes>>
txtVars == <<t_svc, t_value, t_record, t_lens, t_outcome>>
\* the variables of the parts modelled first, and of the parts after them
coreVars == <<upsertVars, lbVars, zoneVars, dnsVars>>
gwVars == <<g_svc, g_pre, g_call, g_outcome, g_writes>>
erVars == <<e_circuit, e_instance, e_call, e_outcome, e_writes, e_result>>
subnetVars == <<s_tables, s_instance, s_call, s_outcome, s_result>>
seqVars == <<k_coll, k_prev, k_call, k_calls, k_len0, k_grown>>
importVars == <<i_sets, i_pc, i_idx, i_log, i_errors>>
restVars == <<txtVars, gwVars, erVars, subnetVars, seqVars, importVars>>
vars == <<coreVars, restVars>>

(***************************************************************************)
(* Values                                                                  *)
(***************************************************************************)
None == "None"
Names == {"a", "b"}
Vals == {"x", "y"}
\* a named sub-resource object: its name and the rest of its payload
Entry == [name : Names, val : Vals]
KeyNames == {"name", "val"}
KeyValues == Names \cup Vals

MaxLen == 3

SeqsUpTo(S, n) == UNION {[1..k -> S] : k \in 0..n}

(***************************************************************************)
(* _upsert (custom.py 42-47)                                               *)
(***************************************************************************)
\* getattr(x, key_name, None)
GetAttr(x, key_name) == IF key_name \in DOMAIN x THEN x[key_name] ELSE None

\* next((x for x in collection if getattr(x, key_name, None) == key_value), None),
\* as the index of that element, 0 for None
FirstMatch(coll, key_name, key_value) ==
    LET hits == {i \in 1..Len(coll) : GetAttr(coll[i], key_name) = key_value}
    IN IF hits = {} THEN 0 ELSE CHOOSE i \in hits : \A j \in hits : i <= j

\* list.remove(x): drops the first element equal to x
ListRemove(coll, x) ==
    LET hits == {i \in 1..Len(coll) : coll[i] = x}
        k == CHOOSE i \in hits : \A j \in hits : i <= j
    IN IF hits = {} THEN coll
       ELSE [i \in 1..(Len(coll) - 1) |-> IF i < k THEN coll[i] ELSE coll[i + 1]]

\* a buggy variant: the match is found and the warning logged, but nothing is removed
UpsertNoRemove(coll, obj, key_name, key_value) ==
    LET m == FirstMatch(coll, key_name, key_value)
    IN [collection |-> Append(coll, obj), warnings |-> IF m # 0 THEN 1 ELSE 0]

\* a buggy variant: the new object is put first
UpsertPrepend(coll, obj, key_name, key_value) ==
    LET m == FirstMatch(coll, key_name, key_value)
    IN [collection |-> <<obj>> \o (IF m # 0 THEN ListRemove(coll, coll[m]) ELSE coll),
        warnings |-> IF m # 0 THEN 1 ELSE 0]

\* a buggy variant: the warning is logged on every call
UpsertAlwaysWarns(coll, obj, key_name, key_value) ==
    LET m == FirstMatch(coll, key_name, key_value)
    IN [collection |-> Append(IF m # 0 THEN ListRemove(coll, coll[m]) ELSE coll, obj),
        warnings |-> 1]

\* the list after the call and the number of warnings logged
_upsert(coll, obj, key_name, key_value) ==
    LET m == FirstMatch(coll, key_name, key_value)
    IN [collection |-> Append(IF m # 0 THEN ListRemove(coll, coll[m]) ELSE coll, obj),
        warnings |-> IF m # 0 THEN 1 ELSE 0]

NoCall == [obj |-> None, key_name |-> None, key_value |-> None]

UpsertIdle ==
    /\ collection = <<>>
    /\ u_pre = <<>>
    /\ u_call = NoCall
    /\ u_warn = 0

InitUpsert ==
    /\ collection \in SeqsUpTo(Entry, MaxLen)
    /\ u_pre = collection
    /\ u_call = NoCall
    /\ u_warn = 0

UpsertCall ==
    /\ u_call = NoCall
    /\ \E obj \in Entry, key_name \in KeyNames, key_value \in KeyValues :
          LET r == _upsert(collection, obj, key_name, key_value)
          IN /\ collection' = r.collection
             /\ u_warn' = r.warnings
             /\ u_pre' = collection
             /\ u_call' = [obj |-> obj, key_name |-> key_name, key_value |-> key_value]
    /\ UNCHANGED <<lbVars, zoneVars, dnsVars, restVars>>

(***************************************************************************)
(* The service and the sub-resource create commands                        *)
(***************************************************************************)
Procs == {"p1", "p2"}

NoItem == [name |-> None, val |-> None]

LbCollections == {"frontend_ip_configurations", "backend_address_pools", "probes",
                  "load_balancing_rules", "inbound_nat_rules"}
AgCollections == {"frontend_ports", "probes"}

MkCmd(op, item_name, val, fe, pool, probe) ==
    [op |-> op, item_name |-> item_name, val |-> val, frontend_ip_name |-> fe,
     backend_address_pool_name |-> pool, probe_name |-> probe]

NoCmd == MkCmd(None, None, None, None, None, None)

Cmds ==
    {MkCmd("create_lb_probe", n, v, None, None, None) : n \in Names, v \in Vals}
    \cup {MkCmd("create_lb_backend_address_pool", n, "y", None, None, None) : n \in Names}
    \cup {MkCmd("create_ag_frontend_port", n, v, None, None, None) : n \in Names, v \in Vals}
    \cup {MkCmd("create_lb_inbound_nat_rule", "a", "y", fe, None, None) : fe \in Names}
    \cup {MkCmd("create_lb_rule", "a", "y", fe, pool, probe) :
             fe \in Names, pool \in Names, probe \in Names \cup {None, ""}}

ParentOf(c) == IF c.op = "create_ag_frontend_port" THEN "ag" ELSE "lb"

TargetOf(c) ==
    CASE c.op = "create_lb_probe" -> "probes"
      [] c.op = "create_lb_backend_address_pool" -> "backend_address_pools"
      [] c.op = "create_ag_frontend_port" -> "frontend_ports"
      [] c.op = "create_lb_inbound_nat_rule" -> "inbound_nat_rules"
      [] c.op = "create_lb_rule" -> "load_balancing_rules"

\* _get_property(items, name): the element named name, NoItem standing for the
\* client error raised when there is none
HasProperty(items, name) == \E i \in 1..Len(items) : items[i].name = name

_get_property(items, name) ==
    IF HasProperty(items, name)
    THEN items[CHOOSE i \in 1..Len(items) :
                  items[i].name = name /\ \A j \in 1..(i - 1) : items[j].name # name]
    ELSE NoItem

\* the lookups of a command against the fetched parent: the names it must find
LookupsNoProbe(c, parent) ==
    CASE c.op = "create_lb_rule" ->
            {<<"frontend_ip_configurations", c.frontend_ip_name>>,
             <<"backend_address_pools", c.backend_address_pool_name>>}
      [] c.op = "create_lb_inbound_nat_rule" ->
            {<<"frontend_ip_configurations", c.frontend_ip_name>>}
      [] OTHER -> {}

Lookups(c, parent) ==
    CASE c.op = "create_lb_rule" ->
            {<<"frontend_ip_configurations", c.frontend_ip_name>>,
             <<"backend_address_pools", c.backend_address_pool_name>>}
            \cup (IF c.probe_name \notin {None, ""}
                  THEN {<<"probes", c.probe_name>>} ELSE {})
      [] c.op = "create_lb_inbound_nat_rule" ->
            {<<"frontend_ip_configurations", c.frontend_ip_name>>}
      [] OTHER -> {}

\* whether some lookup of the command raises the client error
Raises(c, parent) ==
    \E l \in Lookups(c, parent) : ~HasProperty(parent[l[1]], l[2])

\* the new sub-resource object the command constructs
NewObj(c, parent) ==
    CASE c.op = "create_lb_rule" ->
            [name |-> c.item_name,
             val |-> [frontend_ip_configuration |->
                          _get_property(parent.frontend_ip_configurations,
                                        c.frontend_ip_name),
                      backend_address_pool |->
                          _get_property(parent.backend_address_pools,
                                        c.backend_address_pool_name),
                      probe |-> IF c.probe_name \notin {None, ""}
                                THEN _get_property(parent.probes, c.probe_name)
                                ELSE NoItem]]
      [] c.op = "create_lb_inbound_nat_rule" ->
            [name |-> c.item_name,
             val |-> [frontend_ip_configuration |->
                          _get_property(parent.frontend_ip_configurations,
                                        c.frontend_ip_name)]]
      [] OTHER -> [name |-> c.item_name, val |-> c.val]

\* a buggy variant: the upsert also empties the probes of the parent
MutatedParentDropsProbes(c, parent) ==
    [parent EXCEPT ![TargetOf(c)] =
                       _upsert(@, NewObj(c, parent), "name", c.item_name).collection,
                   !["probes"] = IF TargetOf(c) = "probes" THEN @ ELSE <<>>]

\* the fetched parent after the command's _upsert on its target collection
MutatedParent(c, parent) ==
    [parent EXCEPT ![TargetOf(c)] =
                       _upsert(@, NewObj(c, parent), "name", c.item_name).collection]

\* a buggy service: create_or_update merges nothing and keeps what it holds
StoreIgnored(held, given) == held

\* the service stores each submitted parent as given
Store(held, given) == given

Calls(p) ==
    LET mine == SelectSeq(log, LAMBDA e : e.proc = p)
    IN [i \in 1..Len(mine) |-> <<mine[i].op, mine[i].parent>>]

LbIdle ==
    /\ svc = [lb |-> [c \in LbCollections |-> <<>>], ag |-> [c \in AgCollections |-> <<>>]]
    /\ pc = [p \in Procs |-> "done"]
    /\ cmd = [p \in Procs |-> NoCmd]
    /\ fetched = [p \in Procs |-> None]
    /\ submitted = [p \in Procs |-> None]
    /\ outcome = [p \in Procs |-> "none"]
    /\ log = <<>>

SomeOrNone == {<<>>, <<[name |-> "a", val |-> "x"]>>}

InitLb ==
    /\ \E fe \in SomeOrNone, pool \in SomeOrNone, probe \in SomeOrNone :
          svc = [lb |-> [frontend_ip_configurations |-> fe,
                         backend_address_pools |-> pool,
                         probes |-> probe,
                         load_balancing_rules |-> <<>>,
                         inbound_nat_rules |-> <<>>],
                 ag |-> [frontend_ports |-> <<[name |-> "a", val |-> "x"]>>,
                         probes |-> <<[name |-> "a", val |-> "x"]>>]]
    /\ pc = [p \in Procs |-> "start"]
    /\ cmd = [p \in Procs |-> NoCmd]
    /\ fetched = [p \in Procs |-> None]
    /\ submitted = [p \in Procs |-> None]
    /\ outcome = [p \in Procs |-> "none"]
    /\ log = <<>>

\* ncf.<parents>.get(resource_group_name, parent_name)
Get(p) ==
    /\ pc[p] = "start"
    /\ \E c \in Cmds :
          /\ cmd' = [cmd EXCEPT ![p] = c]
          /\ fetched' = [fetched EXCEPT ![p] = svc[ParentOf(c)]]
          /\ log' = Append(log, [proc |-> p, op |-> "get", parent |-> ParentOf(c)])
    /\ pc' = [pc EXCEPT ![p] = "fetched"]
    /\ UNCHANGED <<svc, submitted, outcome>>
    /\ UNCHANGED <<upsertVars, zoneVars, dnsVars, restVars>>

\* a lookup fails: the command ends with the client error
Raise(p) ==
    /\ pc[p] = "fetched"
    /\ Raises(cmd[p], fetched[p])
    /\ pc' = [pc EXCEPT ![p] = "done"]
    /\ outcome' = [outcome EXCEPT ![p] = "CLIError"]
    /\ UNCHANGED <<svc, cmd, fetched, submitted, log>>
    /\ UNCHANGED <<upsertVars, zoneVars, dnsVars, restVars>>

\* the object is built, upserted and the parent submitted with create_or_update
Submit(p) ==
    /\ pc[p] = "fetched"
    /\ ~Raises(cmd[p], fetched[p])
    /\ LET parent == MutatedParent(cmd[p], fetched[p])
       IN /\ submitted' = [submitted EXCEPT ![p] = parent]
          /\ svc' = [svc EXCEPT ![ParentOf(cmd[p])] = Store(@, parent)]
    /\ log' = Append(log, [proc |-> p, op |-> "create_or_update",
                           parent |-> ParentOf(cmd[p])])
    /\ pc' = [pc EXCEPT ![p] = "done"]
    /\ outcome' = [outcome EXCEPT ![p] = "ok"]
    /\ UNCHANGED <<cmd, fetched>>
    /\ UNCHANGED <<upsertVars, zoneVars, dnsVars, restVars>>

(***************************************************************************)
(* The zone transform: export_zone's field dictionary and _build_record    *)
(* Strings the code edits are sequences of characters.                     *)
(***************************************************************************)
MaxChunks == 2

RecordTypes == {"a", "aaaa", "cname", "mx", "ns", "ptr", "soa", "srv", "txt"}

Ips == {"10.0.0.1", "10.0.0.2"}
Hosts == {"mail.contoso.com", "ns1.contoso.com"}
Numbers == {1, 2}
\* host and email of a SOA record, with and without the trailing dot
DottedNames == {<<"n", "s">>, <<"n", "s", ".">>, <<"n", ".", "s", ".", ".">>}
Chunks == {<<"a">>, <<"b", "c">>}

\* the records of the DNS models, by record type
ZoneRecords ==
    {[type |-> "a", fields |-> [ipv4_address |-> ip]] : ip \in Ips}
    \cup {[type |-> "aaaa", fields |-> [ipv6_address |-> ip]] : ip \in Ips}
    \cup {[type |-> "cname", fields |-> [cname |-> h]] : h \in Hosts}
    \cup {[type |-> "mx", fields |-> [preference |-> n, exchange |-> h]] :
             n \in Numbers, h \in Hosts}
    \cup {[type |-> "ns", fields |-> [nsdname |-> h]] : h \in Hosts}
    \cup {[type |-> "ptr", fields |-> [ptrdname |-> h]] : h \in Hosts}
    \cup {[type |-> "soa",
           fields |-> [host |-> h, email |-> e, serial_number |-> n, refresh_time |-> 1,
                       retry_time |-> 1, expire_time |-> 2, minimum_ttl |-> 2]] :
             h \in DottedNames, e \in DottedNames, n \in Numbers}
    \cup {[type |-> "srv",
           fields |-> [priority |-> n, weight |-> w, port |-> pt, target |-> h]] :
             n \in Numbers, w \in Numbers, pt \in Numbers, h \in Hosts}
    \cup {[type |-> "txt", fields |-> [value |-> v]] :
             v \in SeqsUpTo(Chunks, MaxChunks) \ {<<>>}}

Ttl == 3600

\* s.rstrip('.')
RECURSIVE RStripDot(_)
RStripDot(s) ==
    IF s # <<>> /\ s[Len(s)] = "." THEN RStripDot(SubSeq(s, 1, Len(s) - 1)) ELSE s

\* ' '.join(l)
RECURSIVE JoinSpace(_)
JoinSpace(l) ==
    IF l = <<>> THEN <<>>
    ELSE IF Len(l) = 1 THEN l[1]
    ELSE l[1] \o <<" ">> \o JoinSpace(Tail(l))

\* d1.update(d2) on dictionaries with disjoint keys
Update(d1, d2) ==
    [k \in DOMAIN d1 \cup DOMAIN d2 |-> IF k \in DOMAIN d2 THEN d2[k] ELSE d1[k]]

\* a buggy variant: the MX host is written under the attribute's own name
ExportMxUnderExchange(record) ==
    [preference |-> record.preference, exchange |-> record.exchange]

\* export_zone's dictionary of an MX record
ExportMx(record) == [preference |-> record.preference, host |-> record.exchange]

\* the fields export_zone writes for one record (record_obj.update(...))
ExportFields(record_type, record) ==
    CASE record_type = "aaaa" -> [ip |-> record.ipv6_address]
      [] record_type = "a" -> [ip |-> record.ipv4_address]
      [] record_type = "cname" -> [alias |-> record.cname]
      [] record_type = "mx" -> ExportMx(record)
      [] record_type = "ns" -> [host |-> record.nsdname]
      [] record_type = "ptr" -> [host |-> record.ptrdname]
      [] record_type = "soa" ->
            [mname |-> RStripDot(record.host) \o <<".">>,
             rname |-> RStripDot(record.email) \o <<".">>,
             serial |-> record.serial_number, refresh |-> record.refresh_time,
             retry |-> record.retry_time, expire |-> record.expire_time,
             minimum |-> record.minimum_ttl]
      [] record_type = "srv" ->
            [priority |-> record.priority, weight |-> record.weight,
             port |-> record.port, target |-> record.target]
      [] record_type = "txt" -> [txt |-> JoinSpace(record.value)]

\* record_obj as appended to zone_obj[record_set_name][record_type]
RecordObj(record_type, record, ttl) ==
    Update([ttl |-> ttl], ExportFields(record_type, record))

\* the keys _build_record reads for a record type, in the order it reads them
BuildKeys(record_type) ==
    CASE record_type \in {"aaaa", "a"} -> <<"ip">>
      [] record_type = "cname" -> <<"alias">>
      [] record_type = "mx" -> <<"preference", "host">>
      [] record_type \in {"ns", "ptr"} -> <<"host">>
      [] record_type = "soa" ->
            <<"host", "email", "serial", "refresh", "retry", "expire", "minimum">>
      [] record_type = "srv" -> <<"priority", "weight", "port", "target">>
      [] record_type \in {"txt", "spf"} -> <<"txt">>

\* the first key whose read raises KeyError, None when every read succeeds
MissingKey(record_type, data) ==
    LET keys == BuildKeys(record_type)
        bad == {i \in 1..Len(keys) : keys[i] \notin DOMAIN data}
    IN IF bad = {} THEN None ELSE keys[CHOOSE i \in bad : \A j \in bad : i <= j]

CLIErrorMissingProperty(record_type, key) ==
    [error |-> "CLIError", message |-> "is missing a property", type |-> record_type,
     key |-> key]

\* _build_record(data): the record built, or the client error raised on KeyError.
\* The text of a TXT record is a string here, never a list, so it is wrapped.
_build_record(data) ==
    LET record_type == data.type
    IN IF MissingKey(record_type, data) # None
       THEN CLIErrorMissingProperty(record_type, MissingKey(record_type, data))
       ELSE [error |-> None, type |-> record_type, fields |->
            CASE record_type = "aaaa" -> [ipv6_address |-> data.ip]
              [] record_type = "a" -> [ipv4_address |-> data.ip]
              [] record_type = "cname" -> [cname |-> data.alias]
              [] record_type = "mx" ->
                    [preference |-> data.preference, exchange |-> data.host]
              [] record_type = "ns" -> [nsdname |-> data.host]
              [] record_type = "ptr" -> [ptrdname |-> data.host]
              [] record_type = "soa" ->
                    [host |-> data.host, email |-> data.email,
                     serial_number |-> data.serial, refresh_time |-> data.refresh,
                     retry_time |-> data.retry, expire_time |-> data.expire,
                     minimum_ttl |-> data.minimum]
              [] record_type = "srv" ->
                    [priority |-> data.priority, weight |-> data.weight,
                     port |-> data.port, target |-> data.target]
              [] record_type \in {"txt", "spf"} -> [value |-> <<data.txt>>]]

NoDict == [ttl |-> 0]
NotBuilt == [error |-> "not built"]

ZoneIdle ==
    /\ z_record = [type |-> None]
    /\ z_pc = "built"
    /\ z_obj = NoDict
    /\ z_built = NotBuilt

InitZone ==
    /\ z_record \in ZoneRecords
    /\ z_pc = "start"
    /\ z_obj = NoDict
    /\ z_built = NotBuilt

\* export_zone's loop body for the record
ExportRecord ==
    /\ z_pc = "start"
    /\ z_obj' = RecordObj(z_record.type, z_record.fields, Ttl)
    /\ z_pc' = "exported"
    /\ UNCHANGED <<z_record, z_built>>
    /\ UNCHANGED <<upsertVars, lbVars, dnsVars, restVars>>

\* _build_record on the exported dictionary with its type and name added
BuildRecord ==
    /\ z_pc = "exported"
    /\ z_built' = _build_record(Update(z_obj, [type |-> z_record.type, name |-> "www"]))
    /\ z_pc' = "built"
    /\ UNCHANGED <<z_record, z_obj>>
    /\ UNCHANGED <<upsertVars, lbVars, dnsVars, restVars>>

(***************************************************************************)
(* _remove_record, dict_matches_filter and lists_match                     *)
(* A field value carries its Python type: a string (a sequence of          *)
(* characters), an integer, a list of strings, or None.                    *)
(***************************************************************************)
MaxRecs == 2

StrVal(s) == [kind |-> "str", v |-> s]
IntVal(n) == [kind |-> "int", v |-> n]
ListVal(l) == [kind |-> "list", v |-> l]
NoneVal == [kind |-> "none", v |-> <<>>]

DigitChar == <<"0", "1", "2", "3", "4", "5", "6", "7", "8", "9">>

\* str(n) of a natural number
RECURSIVE IntToStr(_)
IntToStr(n) ==
    IF n < 10 THEN <<DigitChar[n + 1]>>
    ELSE IntToStr(n \div 10) \o <<DigitChar[(n % 10) + 1]>>

\* str(l) of a list of strings: ['a', 'b']
RECURSIVE ReprItems(_)
ReprItems(l) ==
    IF l = <<>> THEN <<>>
    ELSE <<"'">> \o l[1] \o <<"'">>
         \o (IF Len(l) = 1 THEN <<>> ELSE <<",", " ">> \o ReprItems(Tail(l)))

\* str(x)
PyStr(x) ==
    CASE x.kind = "str" -> x.v
      [] x.kind = "int" -> IntToStr(x.v)
      [] x.kind = "list" -> <<"[">> \o ReprItems(x.v) \o <<"]">>
      [] x.kind = "none" -> <<"N", "o", "n", "e">>

\* what iterating x yields: the characters of a string (strings of length one),
\* the elements of a list
Items(x) ==
    IF x.kind = "str" THEN [i \in 1..Len(x.v) |-> <<x.v[i]>>] ELSE x.v

\* Counter(x): how often each item occurs
Counter(x) ==
    LET items == Items(x)
    IN [e \in {items[i] : i \in 1..Len(items)} |->
           Cardinality({i \in 1..Len(items) : items[i] = e})]

\* lists_match(l1, l2): Counter(l1) == Counter(l2), False on TypeError (an integer
\* or None is not iterable)
lists_match(l1, l2) ==
    /\ l1.kind \in {"str", "list"} /\ l2.kind \in {"str", "list"}
    /\ Counter(l1) = Counter(l2)

\* dict_matches_filter(d, filter_dict)
dict_matches_filter(d, filter_dict) ==
    \A key \in DOMAIN filter_dict :
        \/ filter_dict[key].kind = "none"
        \/ key \in DOMAIN d /\ PyStr(filter_dict[key]) = PyStr(d[key])
        \/ lists_match(filter_dict[key], IF key \in DOMAIN d THEN d[key] ELSE ListVal(<<>>))

DnsTypes == {"a", "mx", "txt", "cname"}

Addrs == {<<"1", ".", "0">>, <<"0", ".", "1">>, <<"1", ".", "1">>}
Exchanges == {<<"m", "x">>, <<"n", "s">>}
Preferences == {1, 10}
\* TXT values: one chunk, and the same two chunks in both orders
TxtValues == {<<<<"a">>>>, <<<<"a">>, <<"b">>>>, <<<<"b">>, <<"a">>>>}

\* ARecord(ipv4_address), MxRecord(int(preference), exchange), TxtRecord(value),
\* CnameRecord(cname) as the remove commands construct them
DnsRecords(record_type) ==
    CASE record_type = "a" -> {[ipv4_address |-> StrVal(ip)] : ip \in Addrs}
      [] record_type = "mx" ->
            {[preference |-> IntVal(n), exchange |-> StrVal(h)] :
                n \in Preferences, h \in Exchanges}
      [] record_type = "txt" -> {[value |-> ListVal(l)] : l \in TxtValues}
      [] record_type = "cname" -> {[cname |-> StrVal(h)] : h \in Exchanges}

\* remove_dns_cname_record passes is_list=False, the other commands the default
IsList(record_type) == record_type # "cname"

\* the record property of a record set of this type is not set
NoRecords(record_type) == [type |-> record_type, has |-> FALSE, recs |-> <<>>]

Ended(kind, ws) == [outcome |-> kind, writes |-> ws]

\* a buggy variant: keep_empty_record_set is ignored
RemoveWriteIgnoresKeep(records_remaining, keep_empty_record_set, record_set) ==
    IF records_remaining = 0
    THEN Ended("ok", <<[op |-> "delete", record_set |-> NoRecords(record_set.type)]>>)
    ELSE Ended("ok", <<[op |-> "create_or_update", record_set |-> record_set]>>)

\* the write that ends _remove_record (custom.py 1798-1803)
RemoveWrite(records_remaining, keep_empty_record_set, record_set) ==
    IF records_remaining = 0 /\ ~keep_empty_record_set
    THEN Ended("ok", <<[op |-> "delete", record_set |-> NoRecords(record_set.type)]>>)
    ELSE Ended("ok", <<[op |-> "create_or_update", record_set |-> record_set]>>)

\* _remove_record against what the service holds: how it ends and what it writes.
\* record_set.has says whether the record property is set (a list, or the single
\* record of a CNAME set) or None.
_remove_record(held, record, keep_empty_record_set, is_list) ==
    IF ~held.exists THEN Ended("CloudError", <<>>)
    ELSE LET record_set == held.record_set
             record_list == record_set.recs
             keep_list == SelectSeq(record_list,
                                    LAMBDA r : ~dict_matches_filter(r, record))
         IN IF is_list
            THEN IF record_set.has
                 THEN IF Len(keep_list) = Len(record_list)
                      THEN Ended("CLIError", <<>>)
                      ELSE RemoveWrite(Len(keep_list), keep_empty_record_set,
                                       [record_set EXCEPT !.recs = keep_list])
                 ELSE Ended("TypeError", <<>>)
            ELSE RemoveWrite(0, keep_empty_record_set,
                             [record_set EXCEPT !.has = FALSE, !.recs = <<>>])

\* the service applies a write: delete drops the record set, create_or_update
\* stores the one given
ApplyWrites(held, ws) ==
    IF ws = <<>> THEN held
    ELSE IF ws[1].op = "delete" THEN [exists |-> FALSE, record_set |-> ws[1].record_set]
    ELSE [exists |-> TRUE, record_set |-> ws[1].record_set]

NoRequest == [record |-> [none |-> NoneVal], keep_empty_record_set |-> FALSE]

DnsIdle ==
    /\ d_svc = [exists |-> FALSE, record_set |-> NoRecords(None)]
    /\ d_pre = d_svc
    /\ d_req = NoRequest
    /\ d_outcome = "none"
    /\ d_writes = <<>>

InitDns ==
    /\ \E t \in DnsTypes :
          \/ \E l \in SeqsUpTo(DnsRecords(t), IF IsList(t) THEN MaxRecs ELSE 1) :
                d_svc = [exists |-> TRUE,
                         record_set |-> [type |-> t,
                                         has |-> IsList(t) \/ l # <<>>,
                                         recs |-> l]]
          \/ d_svc = [exists |-> TRUE, record_set |-> NoRecords(t)]
    /\ d_pre = d_svc
    /\ d_req = NoRequest
    /\ d_outcome = "none"
    /\ d_writes = <<>>

\* one invocation of a remove_dns_*_record command on the record set; once the
\* record set is deleted the command's get fails
RemoveRecord ==
    /\ d_outcome # "CloudError"
    /\ \E record \in DnsRecords(d_svc.record_set.type), keep \in BOOLEAN :
          LET r == _remove_record(d_svc, record, keep, IsList(d_svc.record_set.type))
          IN /\ d_req' = [record |-> record, keep_empty_record_set |-> keep]
             /\ d_outcome' = r.outcome
             /\ d_writes' = r.writes
             /\ d_svc' = ApplyWrites(d_svc, r.writes)
    /\ d_pre' = d_svc
    /\ UNCHANGED <<upsertVars, lbVars, zoneVars, restVars>>

(***************************************************************************)
(* add_dns_txt_record (custom.py 1678-1692) and _add_save_record           *)
(* (custom.py 1763-1774). A string is the sequence of its characters.      *)
(***************************************************************************)
MaxParts == 2
ChunkSize == 255

Rep(c, n) == [i \in 1..n |-> c]

\* the strings the value argument is made of
TxtStrings ==
    {Rep("a", n) : n \in {0, 1, ChunkSize, ChunkSize + 1}}
        \cup {Rep("b", ChunkSize),
              <<"\\">>,
              Rep("a", ChunkSize - 1) \o <<"\\", "b", "b">>}

\* ''.join(xs)
RECURSIVE StrJoin(_)
StrJoin(xs) == IF xs = <<>> THEN <<>> ELSE Head(xs) \o StrJoin(Tail(xs))

\* s.replace('\\', '')
DropBackslashes(s) == SelectSeq(s, LAMBDA c : c # "\\")

\* a buggy variant: the slice that continues the loop starts one character late
RECURSIVE SplitTextDropsChar(_)
SplitTextDropsChar(long_text) ==
    IF Len(long_text) > ChunkSize
    THEN <<SubSeq(long_text, 1, ChunkSize)>>
             \o SplitTextDropsChar(SubSeq(long_text, ChunkSize + 2, Len(long_text)))
    ELSE <<long_text>>

\* the while loop of lines 1685-1688: record.value after it
RECURSIVE SplitText(_)
SplitText(long_text) ==
    IF Len(long_text) > ChunkSize
    THEN <<SubSeq(long_text, 1, ChunkSize)>>
             \o SplitText(SubSeq(long_text, ChunkSize + 1, Len(long_text)))
    ELSE <<long_text>>

\* add_dns_txt_record up to its assertion
TxtRecordOf(value) ==
    LET long_text == DropBackslashes(StrJoin(value))
        chunks == SplitText(long_text)
        original_len == Len(long_text)
        final_len == Len(StrJoin(chunks))
    IN [value |-> chunks,
        lens |-> [original_len |-> original_len, final_len |-> final_len],
        outcome |-> IF original_len = final_len THEN "ok" ELSE "AssertionError"]

\* _add_save_record with is_list=True: the record set that create_or_update
\* stores. A failed get gives a new RecordSet with no record list, and _add_record
\* replaces a record list of None by [] before it appends.
_add_save_record(held, record) ==
    LET record_set == IF held.exists THEN held
                      ELSE [exists |-> TRUE, ttl |-> Ttl, recs |-> <<>>]
    IN [record_set EXCEPT !.recs = Append(@, record)]

NoTxtRecordSet == [exists |-> FALSE, ttl |-> 0, recs |-> <<>>]
NoValue == <<>>
NoLens == [original_len |-> 0, final_len |-> 0]

TxtIdle ==
    /\ t_svc = NoTxtRecordSet
    /\ t_value = NoValue
    /\ t_record = <<>>
    /\ t_lens = NoLens
    /\ t_outcome = "none"

InitTxt ==
    /\ t_svc \in {NoTxtRecordSet,
                  [exists |-> TRUE, ttl |-> Ttl, recs |-> <<>>],
                  [exists |-> TRUE, ttl |-> Ttl, recs |-> << <<Rep("b", 1)>> >>]}
    /\ t_value = NoValue
    /\ t_record = <<>>
    /\ t_lens = NoLens
    /\ t_outcome = "none"

\* one invocation of add_dns_txt_record; a failed assertion ends it before
\* _add_save_record
AddTxtRecord ==
    /\ t_outcome = "none"
    /\ \E value \in SeqsUpTo(TxtStrings, MaxParts) :
          LET r == TxtRecordOf(value)
          IN /\ t_value' = value
             /\ t_record' = r.value
             /\ t_lens' = r.lens
             /\ t_outcome' = r.outcome
             /\ t_svc' = IF r.outcome = "ok" THEN _add_save_record(t_svc, r.value)
                         ELSE t_svc
    /\ UNCHANGED <<coreVars, gwVars, erVars, subnetVars, seqVars, importVars>>

(***************************************************************************)
(* The VPN gateway certificate commands (custom.py 1037-1101). An          *)
(* attribute that may be None is a record with the flag is_none.           *)
(***************************************************************************)
MaxCerts == 1

NoneList == [is_none |-> TRUE, items |-> <<>>]
ListOf(l) == [is_none |-> FALSE, items |-> l]

\* vpn_client_address_pool: None, or an AddressSpace whose address_prefixes is
\* None, [] or a list of prefixes
NonePool == [is_none |-> TRUE, address_prefixes |-> NoneList]
PoolOf(prefixes) == [is_none |-> FALSE, address_prefixes |-> prefixes]
Pools == {NonePool, PoolOf(NoneList), PoolOf(ListOf(<<>>)), PoolOf(ListOf(<<"10.0.0.0/24">>))}

\* a certificate list as the service returns it: None, or certificates with
\* distinct names
CertLists ==
    {NoneList} \cup
    {ListOf(l) : l \in {c \in SeqsUpTo(Entry, MaxCerts) :
                           \A i, j \in 1..Len(c) : c[i].name = c[j].name => i = j}}

NoneConfiguration ==
    [is_none |-> TRUE, vpn_client_address_pool |-> NonePool,
     vpn_client_root_certificates |-> NoneList,
     vpn_client_revoked_certificates |-> NoneList]

\* VpnClientConfiguration(): every attribute None
VpnClientConfiguration == [NoneConfiguration EXCEPT !.is_none = FALSE]

Configurations ==
    {NoneConfiguration} \cup
    [is_none : {FALSE}, vpn_client_address_pool : Pools,
     vpn_client_root_certificates : CertLists,
     vpn_client_revoked_certificates : CertLists]

Gateways == [vpn_client_configuration : Configurations]

\* "not x" of an attribute holding None or a list
NotList(l) == l.is_none \/ l.items = <<>>

\* not config.vpn_client_address_pool or
\* not config.vpn_client_address_pool.address_prefixes
NoAddressPrefixes(config) ==
    \/ config.vpn_client_address_pool.is_none
    \/ NotList(config.vpn_client_address_pool.address_prefixes)

\* "if l is None: l = []"
NoneToEmpty(l) == IF l.is_none THEN ListOf(<<>>) ELSE l

MustAddPrefixes == "CLIError: Must add address prefixes to gateway prior to adding a root cert."
PrefixesMustBeSet == "CLIError: Address prefixes must be set on VPN gateways before adding certificates."
CertNotFound == "CLIError: Certificate not found in gateway"

\* create_vnet_gateway_root_cert on the gateway get returns (custom.py 1037-1050)
create_vnet_gateway_root_cert(gateway, public_cert_data, cert_name) ==
    IF gateway.vpn_client_configuration.is_none
    THEN Ended(MustAddPrefixes, <<>>)
    ELSE LET config == gateway.vpn_client_configuration
             certs == NoneToEmpty(config.vpn_client_root_certificates).items
             cert == [name |-> cert_name, val |-> public_cert_data]
             upserted == _upsert(certs, cert, "name", cert_name).collection
         IN Ended("ok",
                  <<[gateway EXCEPT
                       !.vpn_client_configuration.vpn_client_root_certificates =
                           ListOf(upserted)]>>)

\* the try block shared by the two delete commands: next(...) over certs, then
\* certs.remove(cert). Reading an attribute of a None configuration raises
\* AttributeError and an exhausted generator StopIteration, both turned into
\* the client error; iterating a list that is None raises TypeError, which the
\* except clause does not name.
DeleteCert(gateway, certs, cert_name, device) ==
    IF gateway.vpn_client_configuration.is_none THEN Ended(CertNotFound, <<>>)
    ELSE IF certs.is_none THEN Ended("TypeError", <<>>)
    ELSE LET m == FirstMatch(certs.items, "name", cert_name)
         IN IF m = 0 THEN Ended(CertNotFound, <<>>)
            ELSE Ended("ok",
                       <<[gateway EXCEPT !.vpn_client_configuration[device] =
                             ListOf(ListRemove(certs.items, certs.items[m]))]>>)

\* delete_vnet_gateway_root_cert (custom.py 1052-1063)
delete_vnet_gateway_root_cert(gateway, cert_name) ==
    DeleteCert(gateway, gateway.vpn_client_configuration.vpn_client_root_certificates,
               cert_name, "vpn_client_root_certificates")

\* _prep_cert_create (custom.py 1085-1101): the error it raises, or the gateway
\* with the configuration and both lists in place
_prep_cert_create(gateway) ==
    LET config == IF gateway.vpn_client_configuration.is_none
                  THEN VpnClientConfiguration
                  ELSE gateway.vpn_client_configuration
    IN IF NoAddressPrefixes(config)
       THEN [raised |-> TRUE, gateway |-> gateway]
       ELSE [raised |-> FALSE,
             gateway |->
                [vpn_client_configuration |->
                    [config EXCEPT
                       !.vpn_client_revoked_certificates = NoneToEmpty(@),
                       !.vpn_client_root_certificates = NoneToEmpty(@)]]]

\* create_vnet_gateway_revoked_cert (custom.py 1065-1070)
create_vnet_gateway_revoked_cert(gateway, thumbprint, cert_name) ==
    LET prep == _prep_cert_create(gateway)
        certs == prep.gateway.vpn_client_configuration.vpn_client_revoked_certificates
        cert == [name |-> cert_name, val |-> thumbprint]
        upserted == _upsert(certs.items, cert, "name", cert_name).collection
    IN IF prep.raised THEN Ended(PrefixesMustBeSet, <<>>)
       ELSE Ended("ok",
                  <<[prep.gateway EXCEPT
                       !.vpn_client_configuration.vpn_client_revoked_certificates =
                           ListOf(upserted)]>>)

\* delete_vnet_gateway_revoked_cert (custom.py 1072-1083)
delete_vnet_gateway_revoked_cert(gateway, cert_name) ==
    DeleteCert(gateway, gateway.vpn_client_configuration.vpn_client_revoked_certificates,
               cert_name, "vpn_client_revoked_certificates")

NoGwCall == [cmd |-> None, cert_name |-> None, data |-> None]

GwIdle ==
    /\ g_svc = [vpn_client_configuration |-> NoneConfiguration]
    /\ g_pre = g_svc
    /\ g_call = NoGwCall
    /\ g_outcome = "none"
    /\ g_writes = <<>>

InitGw ==
    /\ g_svc \in Gateways
    /\ g_pre = g_svc
    /\ g_call = NoGwCall
    /\ g_outcome = "none"
    /\ g_writes = <<>>

\* an invocation gets the gateway the service holds; the service stores what
\* create_or_update is given
GwEnds(call, r) ==
    /\ g_call' = call
    /\ g_outcome' = r.outcome
    /\ g_writes' = r.writes
    /\ g_pre' = g_svc
    /\ g_svc' = IF r.writes = <<>> THEN g_svc ELSE r.writes[Len(r.writes)]
    /\ UNCHANGED <<coreVars, txtVars, erVars, subnetVars, seqVars, importVars>>

CreateRootCert ==
    /\ g_call = NoGwCall
    /\ \E cert_name \in Names, data \in Vals :
          GwEnds([cmd |-> "create_vnet_gateway_root_cert",
                  cert_name |-> cert_name, data |-> data],
                 create_vnet_gateway_root_cert(g_svc, data, cert_name))

DeleteRootCert ==
    /\ g_call = NoGwCall
    /\ \E cert_name \in Names :
          GwEnds([cmd |-> "delete_vnet_gateway_root_cert",
                  cert_name |-> cert_name, data |-> None],
                 delete_vnet_gateway_root_cert(g_svc, cert_name))

CreateRevokedCert ==
    /\ g_call = NoGwCall
    /\ \E cert_name \in Names, data \in Vals :
          GwEnds([cmd |-> "create_vnet_gateway_revoked_cert",
                  cert_name |-> cert_name, data |-> data],
                 create_vnet_gateway_revoked_cert(g_svc, data, cert_name))

DeleteRevokedCert ==
    /\ g_call = NoGwCall
    /\ \E cert_name \in Names :
          GwEnds([cmd |-> "delete_vnet_gateway_revoked_cert",
                  cert_name |-> cert_name, data |-> None],
                 delete_vnet_gateway_revoked_cert(g_svc, cert_name))

(***************************************************************************)
(* The ExpressRoute peering commands (custom.py 1172-1256)                 *)
(***************************************************************************)
MaxPeerings == 1

\* ExpressRouteCircuitPeeringType and ExpressRouteCircuitSkuTier
PeeringTypes == {"AzurePrivatePeering", "AzurePublicPeering", "MicrosoftPeering"}
SkuTiers == {"Standard", "Premium"}
VlanIds == {"100", "200"}
PeeringNames == {"AzurePrivatePeering", "AzurePublicPeering"}

\* an argument that defaults to None
Optional(S) == {None} \cup S

\* the circuit as fetched: its SKU tier and its peerings
Circuits ==
    [tier : SkuTiers,
     peerings : SeqsUpTo([name : PeeringNames, vlan_id : VlanIds], MaxPeerings)]

\* microsoft_peering_config: None, or an ExpressRouteCircuitPeeringConfig
NonePeeringConfig ==
    [is_none |-> TRUE, advertised_public_prefixes |-> None, customer_asn |-> None,
     routing_registry_name |-> None]

ExpressRouteCircuitPeeringConfig(advertised_public_prefixes, customer_asn, routing_registry_name) ==
    [is_none |-> FALSE, advertised_public_prefixes |-> advertised_public_prefixes,
     customer_asn |-> customer_asn, routing_registry_name |-> routing_registry_name]

\* the peering object; routing_registry_name is the attribute line 1251 sets
\* on the peering itself, which a peering does not have before
ExpressRouteCircuitPeering(peering_type, peer_asn, vlan_id, primary, secondary, shared_key, peering_config) ==
    [peering_type |-> peering_type, peer_asn |-> peer_asn, vlan_id |-> vlan_id,
     primary_peer_address_prefix |-> primary,
     secondary_peer_address_prefix |-> secondary,
     shared_key |-> shared_key, microsoft_peering_config |-> peering_config,
     routing_registry_name |-> None]

SkuError == "CLIError: MicrosoftPeering cannot be created on a 'Standard' SKU circuit"
VlanError == "CLIError: VLAN ID already in use by peering"
OnlyMicrosoftPeering == "CLIError: --advertised-public-prefixes, --customer-asn and --routing-registry-name are only applicable for 'MicrosoftPeering'"

ErArgs ==
    [peering_type : PeeringTypes, peer_asn : {"65001"}, vlan_id : VlanIds,
     primary_peer_address_prefix : {"10.0.0.0/30"},
     secondary_peer_address_prefix : {"10.0.0.4/30"},
     shared_key : {None},
     advertised_public_prefixes : Optional({"20.0.0.0/24"}),
     customer_asn : Optional({"65002"}),
     routing_registry_name : Optional({"ARIN"})]

\* a buggy variant: the VLAN ids of the existing peerings are not looked at
CreatePeeringSkipsVlanCheck(circuit, a) ==
    IF a.peering_type = "MicrosoftPeering" /\ circuit.tier = "Standard"
    THEN Ended(SkuError, <<>>)
    ELSE Ended("ok",
               <<ExpressRouteCircuitPeering(
                    a.peering_type, a.peer_asn, a.vlan_id,
                    a.primary_peer_address_prefix, a.secondary_peer_address_prefix,
                    a.shared_key, NonePeeringConfig)>>)

\* create_express_route_peering on the fetched circuit (custom.py 1197-1221)
create_express_route_peering(circuit, a) ==
    IF a.peering_type = "MicrosoftPeering" /\ circuit.tier = "Standard"
    THEN Ended(SkuError, <<>>)
    ELSE IF \E i \in 1..Len(circuit.peerings) : circuit.peerings[i].vlan_id = a.vlan_id
    THEN Ended(VlanError, <<>>)
    ELSE LET peering_config ==
                 IF a.peering_type = "MicrosoftPeering"
                 THEN ExpressRouteCircuitPeeringConfig(
                          a.advertised_public_prefixes, a.customer_asn,
                          a.routing_registry_name)
                 ELSE NonePeeringConfig
         IN Ended("ok",
                  <<ExpressRouteCircuitPeering(
                       a.peering_type, a.peer_asn, a.vlan_id,
                       a.primary_peer_address_prefix, a.secondary_peer_address_prefix,
                       a.shared_key, peering_config)>>)

\* "if value is not None: instance.field = value"
SetIfGiven(instance, field, value) ==
    IF value # None THEN [instance EXCEPT ![field] = value] ELSE instance

ErUpdateArgs ==
    [peer_asn : Optional({"65003"}), primary_peer_address_prefix : {None},
     secondary_peer_address_prefix : {None}, vlan_id : Optional({"200"}),
     shared_key : Optional({"key"}),
     advertised_public_prefixes : Optional({"20.0.0.0/24"}),
     customer_asn : Optional({"65002"}),
     routing_registry_name : Optional({"ARIN"})]

\* update_express_route_peering (custom.py 1223-1256): the error raised, or the
\* instance returned. Setting an attribute of a microsoft_peering_config that
\* is None raises AttributeError; line 1251 sets routing_registry_name on the
\* peering, which raises nothing.
update_express_route_peering(instance, a) ==
    LET i1 == SetIfGiven(instance, "peer_asn", a.peer_asn)
        i2 == SetIfGiven(i1, "primary_peer_address_prefix", a.primary_peer_address_prefix)
        i3 == SetIfGiven(i2, "secondary_peer_address_prefix",
                         a.secondary_peer_address_prefix)
        i4 == SetIfGiven(i3, "vlan_id", a.vlan_id)
        i5 == SetIfGiven(i4, "shared_key", a.shared_key)
        config == i5.microsoft_peering_config
        c1 == SetIfGiven(config, "advertised_public_prefixes",
                         a.advertised_public_prefixes)
        c2 == SetIfGiven(c1, "customer_asn", a.customer_asn)
        i6 == [i5 EXCEPT !.microsoft_peering_config = c2]
        i7 == SetIfGiven(i6, "routing_registry_name", a.routing_registry_name)
    IN IF config.is_none
          /\ (a.advertised_public_prefixes # None \/ a.customer_asn # None)
       THEN [outcome |-> OnlyMicrosoftPeering, instance |-> instance]
       ELSE [outcome |-> "ok", instance |-> i7]

\* the peerings update is run on: a private peering and a Microsoft peering
ErInstances ==
    {ExpressRouteCircuitPeering("AzurePrivatePeering", "65001", "100", "10.0.0.0/30",
                                "10.0.0.4/30", None, NonePeeringConfig),
     ExpressRouteCircuitPeering("MicrosoftPeering", "65001", "100", "10.0.0.0/30",
                                "10.0.0.4/30", None,
                                ExpressRouteCircuitPeeringConfig("30.0.0.0/24", "65004",
                                                                 "RIPE"))}

NoErCall == [cmd |-> None]
NoCircuit == [tier |-> None, peerings |-> <<>>]
NoPeering ==
    ExpressRouteCircuitPeering(None, None, None, None, None, None, NonePeeringConfig)

ErIdle ==
    /\ e_circuit = NoCircuit
    /\ e_instance = NoPeering
    /\ e_call = NoErCall
    /\ e_outcome = "none"
    /\ e_writes = <<>>
    /\ e_result = NoPeering

InitEr ==
    /\ e_circuit \in Circuits
    /\ e_instance \in ErInstances
    /\ e_call = NoErCall
    /\ e_outcome = "none"
    /\ e_writes = <<>>
    /\ e_result = NoPeering

\* one invocation of create_express_route_peering
CreatePeering ==
    /\ e_call = NoErCall
    /\ \E a \in ErArgs :
          LET r == create_express_route_peering(e_circuit, a)
          IN /\ e_call' = [cmd |-> "create_express_route_peering", args |-> a]
             /\ e_outcome' = r.outcome
             /\ e_writes' = r.writes
    /\ UNCHANGED <<e_circuit, e_instance, e_result>>
    /\ UNCHANGED <<coreVars, txtVars, gwVars, subnetVars, seqVars, importVars>>

\* one invocation of update_express_route_peering
UpdatePeering ==
    /\ e_call = NoErCall
    /\ \E a \in ErUpdateArgs :
          LET r == update_express_route_peering(e_instance, a)
          IN /\ e_call' = [cmd |-> "update_express_route_peering", args |-> a]
             /\ e_outcome' = r.outcome
             /\ e_result' = r.instance
    /\ UNCHANGED <<e_circuit, e_instance, e_writes>>
    /\ UNCHANGED <<coreVars, txtVars, gwVars, subnetVars, seqVars, importVars>>

(***************************************************************************)
(* update_subnet and _set_route_table (custom.py 881-892, 912-929)         *)
(***************************************************************************)
ResourceGroups == {"rg1", "rg2"}
RouteTableNames == {"rt1", "rt2"}
RouteTableId == "/subscriptions/s/resourceGroups/rg2/providers/Microsoft.Network/routeTables/rt2"

\* a route table of the service, and the None a subnet holds without one
RouteTable(resource_group, name) ==
    [is_none |-> FALSE, resource_group |-> resource_group, name |-> name]
NoneRouteTable == [is_none |-> TRUE, resource_group |-> None, name |-> None]
RouteTables == {RouteTable(rg, n) : rg \in ResourceGroups, n \in RouteTableNames}

\* NetworkSecurityGroup(network_security_group), and None
NetworkSecurityGroup(id) == [is_none |-> FALSE, id |-> id]
NoneNsg == [is_none |-> TRUE, id |-> None]

Subnets ==
    [address_prefix : {"10.0.0.0/24"},
     network_security_group : {NoneNsg, NetworkSecurityGroup("nsg1")},
     route_table : {NoneRouteTable, RouteTable("rg1", "rt1")}]

\* is_valid_resource_id and parse_resource_id on the route_table argument
is_valid_resource_id(route_table) == route_table = RouteTableId
parse_resource_id(route_table) == [resource_group |-> "rg2", name |-> "rt2"]

\* ncf.route_tables.get: the route table, or CloudError when the service has none
RouteTablesGet(tables, resource_group, name) ==
    IF RouteTable(resource_group, name) \in tables
    THEN [raised |-> FALSE, rt |-> RouteTable(resource_group, name)]
    ELSE [raised |-> TRUE, rt |-> NoneRouteTable]

\* a buggy variant: the empty string leaves the route table in place
SetRouteTableNeverClears(tables, resource_group_name, route_table, subnet) ==
    IF route_table \notin {None, ""}
    THEN LET got == IF is_valid_resource_id(route_table)
                    THEN RouteTablesGet(tables, parse_resource_id(route_table).resource_group,
                                        parse_resource_id(route_table).name)
                    ELSE RouteTablesGet(tables, resource_group_name, route_table)
         IN IF got.raised THEN [outcome |-> "CloudError", subnet |-> subnet]
            ELSE [outcome |-> "ok", subnet |-> [subnet EXCEPT !.route_table = got.rt]]
    ELSE [outcome |-> "ok", subnet |-> subnet]

\* _set_route_table (custom.py 881-892): how it ends and the subnet after it
_set_route_table(tables, resource_group_name, route_table, subnet) ==
    IF route_table \notin {None, ""}
    THEN LET got == IF is_valid_resource_id(route_table)
                    THEN RouteTablesGet(tables, parse_resource_id(route_table).resource_group,
                                        parse_resource_id(route_table).name)
                    ELSE RouteTablesGet(tables, resource_group_name, route_table)
         IN IF got.raised THEN [outcome |-> "CloudError", subnet |-> subnet]
            ELSE [outcome |-> "ok", subnet |-> [subnet EXCEPT !.route_table = got.rt]]
    ELSE IF route_table = ""
    THEN [outcome |-> "ok", subnet |-> [subnet EXCEPT !.route_table = NoneRouteTable]]
    ELSE [outcome |-> "ok", subnet |-> subnet]

\* update_subnet (custom.py 912-929); the instance is changed in place, so an
\* error in _set_route_table leaves the earlier assignments on it
update_subnet(tables, instance, resource_group_name, address_prefix, network_security_group, route_table) ==
    LET i1 == IF address_prefix \notin {None, ""}
              THEN [instance EXCEPT !.address_prefix = address_prefix]
              ELSE instance
        i2 == IF network_security_group \notin {None, ""}
              THEN [i1 EXCEPT !.network_security_group =
                                  NetworkSecurityGroup(network_security_group)]
              ELSE IF network_security_group = ""
              THEN [i1 EXCEPT !.network_security_group = NoneNsg]
              ELSE i1
    IN _set_route_table(tables, resource_group_name, route_table, i2)

SubnetArgs ==
    [resource_group_name : {"rg1"},
     address_prefix : {None, "", "10.0.1.0/24"},
     network_security_group : {None, "", "nsg2"},
     route_table : {None, "", "rt2", RouteTableId}]

NoSubnetCall ==
    [resource_group_name |-> None, address_prefix |-> None,
     network_security_group |-> None, route_table |-> None]
NoSubnet ==
    [address_prefix |-> None, network_security_group |-> NoneNsg,
     route_table |-> NoneRouteTable]

SubnetIdle ==
    /\ s_tables = {}
    /\ s_instance = NoSubnet
    /\ s_call = NoSubnetCall
    /\ s_outcome = "none"
    /\ s_result = NoSubnet

\* the route table a subnet holds is one the service holds
InitSubnet ==
    /\ s_tables \in {T \in SUBSET RouteTables : RouteTable("rg1", "rt1") \in T}
    /\ s_instance \in Subnets
    /\ s_call = NoSubnetCall
    /\ s_outcome = "none"
    /\ s_result = NoSubnet

\* one invocation of update_subnet
UpdateSubnet ==
    /\ s_outcome = "none"
    /\ \E a \in SubnetArgs :
          LET r == update_subnet(s_tables, s_instance, a.resource_group_name,
                                 a.address_prefix, a.network_security_group,
                                 a.route_table)
          IN /\ s_call' = a
             /\ s_outcome' = r.outcome
             /\ s_result' = r.subnet
    /\ UNCHANGED <<s_tables, s_instance>>
    /\ UNCHANGED <<coreVars, txtVars, gwVars, erVars, seqVars, importVars>>

(***************************************************************************)
(* Repeated _upsert calls keyed by name (custom.py 42-47), as the create   *)
(* commands issue them: key_name 'name', key_value the object's name       *)
(***************************************************************************)
MaxCalls == 3

SeqNames == {"a", "b", "c"}
SeqEntries == [name : SeqNames, val : Vals]

\* the entries have pairwise distinct names
DistinctNames(coll) ==
    \A i, j \in 1..Len(coll) : coll[i].name = coll[j].name => i = j

SeqIdle ==
    /\ k_coll = <<>>
    /\ k_prev = <<>>
    /\ k_call = NoItem
    /\ k_calls = 0
    /\ k_len0 = 0
    /\ k_grown = 0

InitSeq ==
    /\ k_coll \in {c \in SeqsUpTo(SeqEntries, MaxLen) : DistinctNames(c)}
    /\ k_prev = k_coll
    /\ k_call = NoItem
    /\ k_calls = 0
    /\ k_len0 = Len(k_coll)
    /\ k_grown = 0

\* one more call _upsert(collection, obj, 'name', obj.name)
UpsertAgain ==
    /\ k_calls < MaxCalls
    /\ \E obj \in SeqEntries :
          /\ k_coll' = _upsert(k_coll, obj, "name", obj.name).collection
          /\ k_call' = obj
          /\ k_grown' = IF \E i \in 1..Len(k_coll) : k_coll[i].name = obj.name
                        THEN k_grown ELSE k_grown + 1
    /\ k_prev' = k_coll
    /\ k_calls' = k_calls + 1
    /\ UNCHANGED k_len0
    /\ UNCHANGED <<coreVars, txtVars, gwVars, erVars, subnetVars, importVars>>

(***************************************************************************)
(* import_zone from the grouped record sets on (custom.py 1585-1616). A    *)
(* remote call returns or raises CloudError.                               *)
(***************************************************************************)
MaxSets == 2

\* zone_name, which is the origin unless the file's SOA names another
Origin == "example.com"
ImportNames == {Origin, "www"}
ImportTypes == {"soa", "ns", "a"}

\* record_sets: one record set per name and type (custom.py 1565-1572)
GroupedRecordSets ==
    {l \in SeqsUpTo([name : ImportNames, type : ImportTypes], MaxSets) :
        \A i, j \in 1..Len(l) : l[i] = l[j] => i = j}

\* rs.name = '@' if rs.name == origin else rs.name
RootName(name) == IF name = Origin THEN "@" ELSE name

\* the record sets of the zone root that are fetched before they are written
NeedsRootLookup(rs) == RootName(rs.name) = "@" /\ rs.type \in {"soa", "ns"}

\* the name and type create_or_update is given: the fetched root NS record set
\* has the type 'Microsoft.Network/dnszones/NS', cut to 'NS' by line 1605
WrittenAs(rs) ==
    [name |-> RootName(rs.name),
     type |-> IF RootName(rs.name) = "@" /\ rs.type = "ns" THEN "NS" ELSE rs.type]

\* a remote call as the service saw it; set is the position in record_sets of
\* the record set it was made for, 0 for the zone
RemoteCall(op, set, name, type, raised) ==
    [op |-> op, set |-> set, name |-> name, type |-> type, raised |-> raised]

ImportIdle ==
    /\ i_sets = <<>>
    /\ i_pc = "idle"
    /\ i_idx = 0
    /\ i_log = <<>>
    /\ i_errors = 0

InitImport ==
    /\ i_sets \in GroupedRecordSets
    /\ i_pc = "start"
    /\ i_idx = 0
    /\ i_log = <<>>
    /\ i_errors = 0

\* client.zones.create_or_update (line 1587); its CloudError is not caught
ZoneCreateOrUpdate ==
    /\ i_pc = "start"
    /\ \E raised \in BOOLEAN :
          /\ i_log' = Append(i_log, RemoteCall("zones.create_or_update", 0, Origin,
                                               "zone", raised))
          /\ i_pc' = IF raised THEN "raised"
                     ELSE IF i_sets = <<>> THEN "done" ELSE "loop"
          /\ i_idx' = IF raised \/ i_sets = <<>> THEN 0 ELSE 1
    /\ UNCHANGED <<i_sets, i_errors>>
    /\ UNCHANGED <<coreVars, txtVars, gwVars, erVars, subnetVars, seqVars>>

\* one pass of the loop of lines 1588-1614: the lookup of the root SOA or NS
\* record set, outside the try block, then create_or_update inside it
ImportRecordSet ==
    /\ i_pc = "loop"
    /\ LET rs == i_sets[i_idx]
           w == WrittenAs(rs)
           get == RemoteCall("record_sets.get", i_idx, "@",
                             IF rs.type = "soa" THEN "SOA" ELSE "NS", FALSE)
           gets == IF NeedsRootLookup(rs) THEN <<get>> ELSE <<>>
       IN \/ /\ NeedsRootLookup(rs)
             /\ i_log' = Append(i_log, [get EXCEPT !.raised = TRUE])
             /\ i_pc' = "raised"
             /\ UNCHANGED <<i_idx, i_errors>>
          \/ \E raised \in BOOLEAN :
                /\ i_log' = i_log \o gets \o
                               <<RemoteCall("record_sets.create_or_update", i_idx,
                                            w.name, w.type, raised)>>
                /\ i_errors' = IF raised THEN i_errors + 1 ELSE i_errors
                /\ i_idx' = IF i_idx = Len(i_sets) THEN i_idx ELSE i_idx + 1
                /\ i_pc' = IF i_idx = Len(i_sets) THEN "done" ELSE "loop"
    /\ UNCHANGED i_sets
    /\ UNCHANGED <<coreVars, txtVars, gwVars, erVars, subnetVars, seqVars>>

(***************************************************************************)
(* Specifications                                                          *)
(***************************************************************************)
CoreIdle == UpsertIdle /\ LbIdle /\ ZoneIdle /\ DnsIdle
RestIdle == TxtIdle /\ GwIdle /\ ErIdle /\ SubnetIdle /\ SeqIdle /\ ImportIdle

InitU == InitUpsert /\ LbIdle /\ ZoneIdle /\ DnsIdle /\ RestIdle
NextU == UpsertCall
SpecUpsert == InitU /\ [][NextU]_vars

Init == UpsertIdle /\ InitLb /\ ZoneIdle /\ DnsIdle /\ RestIdle
Next == \E p \in Procs : Get(p) \/ Raise(p) \/ Submit(p)
Spec == Init /\ [][Next]_vars

InitZ == UpsertIdle /\ LbIdle /\ InitZone /\ DnsIdle /\ RestIdle
NextZ == ExportRecord \/ BuildRecord
SpecZone == InitZ /\ [][NextZ]_vars

InitD == UpsertIdle /\ LbIdle /\ ZoneIdle /\ InitDns /\ RestIdle
NextD == RemoveRecord
SpecDns == InitD /\ [][NextD]_vars

InitT == CoreIdle /\ InitTxt /\ GwIdle /\ ErIdle /\ SubnetIdle /\ SeqIdle /\ ImportIdle
NextT == AddTxtRecord
SpecTxt == InitT /\ [][NextT]_vars

InitG == CoreIdle /\ TxtIdle /\ InitGw /\ ErIdle /\ SubnetIdle /\ SeqIdle /\ ImportIdle
NextG == CreateRootCert \/ DeleteRootCert \/ CreateRevokedCert \/ DeleteRevokedCert
SpecGw == InitG /\ [][NextG]_vars

InitE == CoreIdle /\ TxtIdle /\ GwIdle /\ InitEr /\ SubnetIdle /\ SeqIdle /\ ImportIdle
NextE == CreatePeering \/ UpdatePeering
SpecEr == InitE /\ [][NextE]_vars

InitS == CoreIdle /\ TxtIdle /\ GwIdle /\ ErIdle /\ InitSubnet /\ SeqIdle /\ ImportIdle
NextS == UpdateSubnet
SpecSubnet == InitS /\ [][NextS]_vars

InitK == CoreIdle /\ TxtIdle /\ GwIdle /\ ErIdle /\ SubnetIdle /\ InitSeq /\ ImportIdle
NextK == UpsertAgain
SpecUpsertSeq == InitK /\ [][NextK]_vars

InitI == CoreIdle /\ TxtIdle /\ GwIdle /\ ErIdle /\ SubnetIdle /\ SeqIdle /\ InitImport
NextI == ZoneCreateOrUpdate \/ ImportRecordSet
SpecImport == InitI /\ [][NextI]_vars

(***************************************************************************)
(* Claims about _upsert, checked under SpecUpsert                          *)
(***************************************************************************)
Called == u_call # NoCall

\* the positions of u_pre whose key attribute equals the key value of the call
PreMatches == {i \in 1..Len(u_pre) : GetAttr(u_pre[i], u_call.key_name) = u_call.key_value}

\* the positions of the list after the call, obj's own (the last) left out, whose
\* key attribute equals the key value
OtherMatches ==
    {i \in 1..(Len(collection) - 1) :
        GetAttr(collection[i], u_call.key_name) = u_call.key_value}

\* C1 as stated: for every initial collection, after the call obj is in the
\* collection and no other entry has its key attribute equal to key_value.
C1_AsStated ==
    Called => /\ \E i \in 1..Len(collection) : collection[i] = u_call.obj
              /\ OtherMatches = {}

\* C1 as amended: after the call obj is the last entry, exactly one entry sharing
\* the key (the first) has been removed and all later ones stay, so no other
\* entry has the key when at most one entry had it before the call.
C1_UpsertReplacesFirstMatch ==
    Called => /\ Len(collection) >= 1
              /\ collection[Len(collection)] = u_call.obj
              /\ Cardinality(OtherMatches) =
                    IF PreMatches = {} THEN 0 ELSE Cardinality(PreMatches) - 1
              /\ (Cardinality(PreMatches) <= 1 => OtherMatches = {})

C1_Witness ==
    /\ Called
    /\ Cardinality(PreMatches) = 1
    /\ Len(u_pre) = 2
    /\ u_call.obj \notin {u_pre[i] : i \in 1..Len(u_pre)}

\* C2: when no entry has the key, the list after the call is the original
\* entries, unchanged and in order, followed by obj; the length grows by one.
C2_UpsertAppendsWhenAbsent ==
    (Called /\ PreMatches = {}) =>
        /\ collection = u_pre \o <<u_call.obj>>
        /\ Len(collection) = Len(u_pre) + 1

C2_Witness ==
    /\ Called
    /\ PreMatches = {}
    /\ Len(u_pre) = 2
    /\ collection = u_pre \o <<u_call.obj>>

\* C3: the replacement warning is logged exactly once when an entry with the key
\* existed before the call, and not at all when none existed.
C3_UpsertWarnsOnceOnReplace ==
    Called => u_warn = IF PreMatches # {} THEN 1 ELSE 0

C3_Witness ==
    /\ Called
    /\ Cardinality(PreMatches) = 2
    /\ u_warn = 1

(***************************************************************************)
(* Claims about the sub-resource create commands, checked under Spec       *)
(***************************************************************************)
Missing(items, name) == \A i \in 1..Len(items) : items[i].name # name

\* the command names an element its fetched parent does not hold
NamesMissingElement(c, parent) ==
    \/ /\ c.op \in {"create_lb_rule", "create_lb_inbound_nat_rule"}
       /\ Missing(parent.frontend_ip_configurations, c.frontend_ip_name)
    \/ /\ c.op = "create_lb_rule"
       /\ \/ Missing(parent.backend_address_pools, c.backend_address_pool_name)
          \/ c.probe_name \notin {None, ""} /\ Missing(parent.probes, c.probe_name)

\* C4: create_lb_rule and create_lb_inbound_nat_rule end with the client error,
\* issue no create_or_update and leave the service's load balancer unchanged when
\* frontend_ip_name (for create_lb_rule also backend_address_pool_name or a
\* non-empty probe_name) names no element of the fetched load balancer.
C4_MissingReferenceRaises ==
    [][\A p \in Procs :
          (/\ pc[p] = "fetched"
           /\ pc'[p] = "done"
           /\ NamesMissingElement(cmd[p], fetched[p]))
          => /\ outcome'[p] = "CLIError"
             /\ log' = log
             /\ submitted'[p] = None
             /\ svc' = svc]_vars

C4_Witness ==
    \E p \in Procs :
        /\ pc[p] = "done"
        /\ cmd[p].op = "create_lb_rule"
        /\ cmd[p].probe_name \in Names
        /\ Missing(fetched[p].probes, cmd[p].probe_name)
        /\ ~Missing(fetched[p].frontend_ip_configurations, cmd[p].frontend_ip_name)
        /\ ~Missing(fetched[p].backend_address_pools, cmd[p].backend_address_pool_name)
        /\ outcome[p] = "CLIError"
        /\ Calls(p) = <<<<"get", "lb">>>>

\* the submitted parent equals the fetched copy outside the targeted collection
FrameHolds(p) ==
    /\ DOMAIN submitted[p] = DOMAIN fetched[p]
    /\ \A k \in DOMAIN fetched[p] \ {TargetOf(cmd[p])} : submitted[p][k] = fetched[p][k]

GetThenSubmit(p) ==
    Calls(p) = <<<<"get", ParentOf(cmd[p])>>, <<"create_or_update", ParentOf(cmd[p])>>>>

\* C5 as stated: every invocation of a sub-resource create command performs
\* exactly one get and then exactly one create_or_update of the same parent, and
\* the parent submitted equals the fetched copy except for the targeted collection.
C5_AsStated ==
    \A p \in Procs : pc[p] = "done" => GetThenSubmit(p) /\ FrameHolds(p)

\* C5 as amended: an invocation performs exactly one get and then, unless it
\* raised the client error for a missing referenced element, exactly one
\* create_or_update of the same parent, whose argument equals the fetched copy
\* except for the targeted collection; an invocation that raised performed the
\* get alone.
C5_OneGetThenOneSubmit ==
    \A p \in Procs :
        /\ pc[p] = "start" => Calls(p) = <<>>
        /\ pc[p] = "fetched" => Calls(p) = <<<<"get", ParentOf(cmd[p])>>>>
        /\ (pc[p] = "done" /\ outcome[p] = "ok") => GetThenSubmit(p) /\ FrameHolds(p)
        /\ (pc[p] = "done" /\ outcome[p] = "CLIError") =>
              /\ Calls(p) = <<<<"get", ParentOf(cmd[p])>>>>
              /\ NamesMissingElement(cmd[p], fetched[p])
        /\ pc[p] = "done" => outcome[p] \in {"ok", "CLIError"}

C5_Witness ==
    \E p \in Procs :
        /\ pc[p] = "done"
        /\ outcome[p] = "ok"
        /\ cmd[p].op = "create_lb_backend_address_pool"
        /\ fetched[p].probes # <<>>
        /\ fetched[p].backend_address_pools # <<>>
        /\ submitted[p] # fetched[p]
        /\ GetThenSubmit(p)

\* the position in the log of invocation p's call op
LogIdx(p, op) == CHOOSE i \in 1..Len(log) : log[i].proc = p /\ log[i].op = op

\* the parent value holds the object invocation p constructed
HoldsNewItem(parent, p) ==
    \E i \in 1..Len(parent[TargetOf(cmd[p])]) :
        parent[TargetOf(cmd[p])][i] = NewObj(cmd[p], fetched[p])

\* two completed create commands for different item names on the same parent
BothCompleted(p, q) ==
    /\ p # q
    /\ pc[p] = "done" /\ pc[q] = "done"
    /\ outcome[p] = "ok" /\ outcome[q] = "ok"
    /\ ParentOf(cmd[p]) = ParentOf(cmd[q])
    /\ cmd[p].item_name # cmd[q].item_name

\* C6 as stated: whatever the interleaving of the two commands' get and
\* create_or_update steps, the parent stored after both contains both new items.
C6_AsStated ==
    \A p, q \in Procs :
        BothCompleted(p, q) =>
            /\ HoldsNewItem(svc[ParentOf(cmd[p])], p)
            /\ HoldsNewItem(svc[ParentOf(cmd[p])], q)

\* C6 as amended: the parent stored after both commands is the one submitted by
\* the command whose create_or_update ran last; it contains that command's item,
\* and it contains the other command's item when the last command's get ran
\* after the other's create_or_update; when the steps interleave, the other
\* item is there only if the fetched copy of the last command already held it.
C6_LastWriterWins ==
    \A p, q \in Procs :
        (BothCompleted(p, q) /\ LogIdx(q, "create_or_update") < LogIdx(p, "create_or_update"))
        => LET stored == svc[ParentOf(cmd[p])]
           IN /\ stored = submitted[p]
              /\ HoldsNewItem(stored, p)
              /\ LogIdx(q, "create_or_update") < LogIdx(p, "get")
                    => HoldsNewItem(stored, q)
              /\ LogIdx(p, "get") < LogIdx(q, "create_or_update")
                    => (HoldsNewItem(stored, q) <=> HoldsNewItem(fetched[p], q))

C6_Witness ==
    \E p, q \in Procs :
        /\ BothCompleted(p, q)
        /\ cmd[p].op = "create_lb_backend_address_pool"
        /\ cmd[q].op = "create_lb_backend_address_pool"
        /\ LogIdx(p, "get") < LogIdx(q, "create_or_update")
        /\ LogIdx(q, "create_or_update") < LogIdx(p, "create_or_update")
        /\ HoldsNewItem(svc.lb, p)
        /\ ~HoldsNewItem(svc.lb, q)

(***************************************************************************)
(* Claims about the zone transform, checked under SpecZone                 *)
(***************************************************************************)
Rebuilt == z_pc = "built"

\* C7 as stated: for every record type the dictionary export_zone produced is
\* rebuilt by _build_record, without a missing-property error, into a record
\* with the same field values.
C7_AsStated ==
    Rebuilt => /\ z_built.error = None
               /\ z_built.type = z_record.type
               /\ z_built.fields = z_record.fields

\* C7 as amended: for a, aaaa, cname, mx, ns, ptr and srv the rebuilt record has
\* the same field values; for txt the rebuilt value is the single string of the
\* chunks joined with spaces, the original value only when it had one chunk; for
\* soa the dictionary has mname and rname where _build_record reads host and
\* email, and the rebuild raises the missing-property client error for 'host'.
C7_RoundTripExceptSoaTxt ==
    Rebuilt =>
        /\ z_record.type \in {"a", "aaaa", "cname", "mx", "ns", "ptr", "srv"} =>
              /\ z_built.error = None
              /\ z_built.type = z_record.type
              /\ z_built.fields = z_record.fields
        /\ z_record.type = "txt" =>
              /\ z_built.error = None
              /\ z_built.fields = [value |-> <<JoinSpace(z_record.fields.value)>>]
              /\ (z_built.fields = z_record.fields <=> Len(z_record.fields.value) = 1)
        /\ z_record.type = "soa" =>
              /\ z_built.error = "CLIError"
              /\ z_built.key = "host"
              /\ {"mname", "rname"} \subseteq DOMAIN z_obj
              /\ {"host", "email"} \cap DOMAIN z_obj = {}

C7_Witness ==
    /\ Rebuilt
    /\ z_record.type = "mx"
    /\ z_built.error = None
    /\ z_built.fields = z_record.fields
    /\ DOMAIN z_obj = {"ttl", "preference", "host"}

(***************************************************************************)
(* Claims about _remove_record, checked under SpecDns                      *)
(***************************************************************************)
Invoked == d_outcome # "none"

FetchedSet == d_pre.record_set

\* the invocation ran on a list-type record set whose record list is set and
\* whose records have string and integer fields (A and MX records)
OnList == Invoked /\ d_pre.exists /\ FetchedSet.type \in {"a", "mx"} /\ FetchedSet.has

\* the fetched records whose fields differ from the requested record's
Differing == SelectSeq(FetchedSet.recs, LAMBDA r : r # d_req.record)

\* C8 as stated, for A and MX record sets: the remove command removes exactly
\* the records whose fields equal the requested record's; every record that
\* differs in some field value (an A record with a different ipv4_address
\* string) is kept, in order, in the record set that is submitted.
C8_AsStated ==
    (OnList /\ d_outcome = "ok") =>
        /\ d_writes[1].op = "create_or_update" => d_writes[1].record_set.recs = Differing
        /\ d_writes[1].op = "delete" => Differing = <<>>

\* C9 as stated, for A and MX record sets: when no fetched record is the
\* requested one the command raises 'Record ... not found.', issues neither
\* delete nor create_or_update, and the service's record set is unchanged.
C9_AsStated ==
    (OnList /\ Differing = FetchedSet.recs) =>
        /\ d_outcome = "CLIError"
        /\ d_writes = <<>>
        /\ d_svc = d_pre

\* the records the removal leaves: those dict_matches_filter does not match
Remaining ==
    IF IsList(FetchedSet.type)
    THEN SelectSeq(FetchedSet.recs, LAMBDA r : ~dict_matches_filter(r, d_req.record))
    ELSE <<>>

\* C10: a successful removal issues exactly one remote write: a delete of the
\* record set if and only if no records remain and keep_empty_record_set is
\* false, otherwise a create_or_update carrying the remaining records; an
\* invocation that failed issued none.
C10_OneWriteAfterRemoval ==
    /\ (Invoked /\ d_outcome = "ok") =>
          /\ Len(d_writes) = 1
          /\ d_writes[1].op \in {"delete", "create_or_update"}
          /\ d_writes[1].op = "delete" <=>
                (Remaining = <<>> /\ ~d_req.keep_empty_record_set)
          /\ d_writes[1].op = "create_or_update" =>
                /\ d_writes[1].record_set.recs = Remaining
                /\ d_writes[1].record_set.type = FetchedSet.type
                /\ d_svc = [exists |-> TRUE, record_set |-> d_writes[1].record_set]
          /\ d_writes[1].op = "delete" => ~d_svc.exists
    /\ (Invoked /\ d_outcome # "ok") => d_writes = <<>> /\ d_svc = d_pre
    /\ (Invoked /\ d_outcome = "ok") => d_pre.exists

C10_Witness ==
    /\ Invoked
    /\ d_outcome = "ok"
    /\ FetchedSet.type = "mx"
    /\ Len(FetchedSet.recs) = 2
    /\ d_req.keep_empty_record_set
    /\ d_writes[1].op = "create_or_update"
    /\ d_writes[1].record_set.recs = <<>>

(***************************************************************************)
(* C11                                                                     *)
(***************************************************************************)
\* C11: for every input value of add_dns_txt_record the assertion
\* original_len == final_len holds; the concatenation of the stored chunks is
\* the concatenation of the input strings with every backslash removed, every
\* chunk has at most 255 characters and every chunk but the last exactly 255;
\* the chunks are the record appended to the stored record set.
C11_ChunksOfAtMost255 ==
    t_outcome # "none" =>
        /\ t_outcome = "ok"
        /\ t_lens.original_len = t_lens.final_len
        /\ StrJoin(t_record) = DropBackslashes(StrJoin(t_value))
        /\ \A i \in 1..Len(t_record) : Len(t_record[i]) <= ChunkSize
        /\ \A i \in 1..(Len(t_record) - 1) : Len(t_record[i]) = ChunkSize
        /\ t_record # <<>>
        /\ t_svc.exists /\ t_svc.recs[Len(t_svc.recs)] = t_record

\* a value with a backslash whose text needs three chunks was added
C11_Witness ==
    /\ t_outcome = "ok"
    /\ Len(t_record) = 3
    /\ \E i \in 1..Len(t_value) : \E j \in 1..Len(t_value[i]) : t_value[i][j] = "\\"
    /\ Len(StrJoin(t_value)) > Len(StrJoin(t_record))

(***************************************************************************)
(* C12, C13                                                                *)
(***************************************************************************)
GwInvoked(cmds) == g_call.cmd \in cmds

\* the gateway has no VPN client address prefixes set
NoPrefixesSet(gateway) ==
    \/ gateway.vpn_client_configuration.is_none
    \/ NoAddressPrefixes(gateway.vpn_client_configuration)

\* the gateway holds a certificate of that name in that list
HoldsCert(gateway, device, cert_name) ==
    /\ ~gateway.vpn_client_configuration.is_none
    /\ \E i \in 1..Len(gateway.vpn_client_configuration[device].items) :
          gateway.vpn_client_configuration[device].items[i].name = cert_name

\* C12 as stated: create_vnet_gateway_root_cert raises the client error 'Must
\* add address prefixes to gateway ...' and issues no create_or_update whenever
\* the gateway has no VPN client address prefixes set, and
\* create_vnet_gateway_revoked_cert raises a client error and issues no
\* create_or_update on the same gateways.
C12_AsStated ==
    /\ (GwInvoked({"create_vnet_gateway_root_cert"}) /\ NoPrefixesSet(g_pre))
          => (g_outcome = MustAddPrefixes /\ g_writes = <<>>)
    /\ (GwInvoked({"create_vnet_gateway_revoked_cert"}) /\ NoPrefixesSet(g_pre))
          => (g_outcome = PrefixesMustBeSet /\ g_writes = <<>>)

\* C13 as stated: delete_vnet_gateway_root_cert and
\* delete_vnet_gateway_revoked_cert raise the client error 'Certificate ... not
\* found in gateway ...' and issue no create_or_update whenever the gateway
\* holds no certificate named cert_name, a gateway without configuration or
\* with a certificate list that is None or empty included.
C13_AsStated ==
    /\ (GwInvoked({"delete_vnet_gateway_root_cert"})
          /\ ~HoldsCert(g_pre, "vpn_client_root_certificates", g_call.cert_name))
          => (g_outcome = CertNotFound /\ g_writes = <<>>)
    /\ (GwInvoked({"delete_vnet_gateway_revoked_cert"})
          /\ ~HoldsCert(g_pre, "vpn_client_revoked_certificates", g_call.cert_name))
          => (g_outcome = CertNotFound /\ g_writes = <<>>)

(***************************************************************************)
(* C14, C15                                                                *)
(***************************************************************************)
ErInvoked(c) == e_call.cmd = c

\* C14 as stated: update_express_route_peering raises the client error
\* "--advertised-public-prefixes, --customer-asn and --routing-registry-name are
\* only applicable for 'MicrosoftPeering'" whenever one of
\* advertised_public_prefixes, customer_asn and routing_registry_name is given
\* for a peering whose microsoft_peering_config is None.
C14_AsStated ==
    (/\ ErInvoked("update_express_route_peering")
     /\ e_instance.microsoft_peering_config.is_none
     /\ \/ e_call.args.advertised_public_prefixes # None
        \/ e_call.args.customer_asn # None
        \/ e_call.args.routing_registry_name # None)
        => e_outcome = OnlyMicrosoftPeering

MicrosoftOnStandard ==
    e_call.args.peering_type = "MicrosoftPeering" /\ e_circuit.tier = "Standard"

VlanInUse ==
    \E i \in 1..Len(e_circuit.peerings) :
        e_circuit.peerings[i].vlan_id = e_call.args.vlan_id

\* C15: create_express_route_peering raises a client error and never calls
\* client.create_or_update when peering_type is MicrosoftPeering and the
\* fetched circuit's SKU tier is Standard, or when an existing peering of the
\* circuit has the requested vlan_id; in every other case it calls
\* create_or_update exactly once, with a peering of the requested type and
\* vlan_id.
C15_CreateOnceUnlessRefused ==
    ErInvoked("create_express_route_peering") =>
        IF MicrosoftOnStandard \/ VlanInUse
        THEN e_outcome \in {SkuError, VlanError} /\ e_writes = <<>>
        ELSE /\ e_outcome = "ok"
             /\ Len(e_writes) = 1
             /\ e_writes[1].peering_type = e_call.args.peering_type
             /\ e_writes[1].vlan_id = e_call.args.vlan_id

\* a private peering was refused because its VLAN id is taken on a Premium circuit
C15_Witness ==
    /\ ErInvoked("create_express_route_peering")
    /\ VlanInUse /\ ~MicrosoftOnStandard
    /\ e_outcome = VlanError
    /\ e_writes = <<>>

(***************************************************************************)
(* C16                                                                     *)
(***************************************************************************)
\* the route table the route_table argument names: by its resource id, or by
\* its name in the resource group of the command
NamedRouteTable ==
    IF s_call.route_table = RouteTableId THEN RouteTable("rg2", "rt2")
    ELSE RouteTable(s_call.resource_group_name, s_call.route_table)

\* C16: update_subnet follows a three-way rule per argument:
\* network_security_group None leaves the subnet's network security group
\* unchanged, the empty string sets it to None and a non-empty value attaches
\* that group; route_table None leaves the route table unchanged, the empty
\* string clears it and a non-empty value sets it to the route table fetched
\* from the service (the command ends with the service's error when there is
\* none to fetch); address_prefix changes only when a non-empty value is given.
C16_ThreeWayRule ==
    s_outcome # "none" =>
        /\ s_result.network_security_group =
              CASE s_call.network_security_group = None ->
                      s_instance.network_security_group
                [] s_call.network_security_group = "" -> NoneNsg
                [] OTHER -> NetworkSecurityGroup(s_call.network_security_group)
        /\ s_result.address_prefix =
              IF s_call.address_prefix \in {None, ""}
              THEN s_instance.address_prefix
              ELSE s_call.address_prefix
        /\ s_outcome = "CloudError" <=>
              (s_call.route_table \notin {None, ""} /\ NamedRouteTable \notin s_tables)
        /\ s_outcome = "ok" =>
              s_result.route_table =
                 CASE s_call.route_table = None -> s_instance.route_table
                   [] s_call.route_table = "" -> NoneRouteTable
                   [] OTHER -> NamedRouteTable

\* a subnet with a security group and a route table had both detached and its
\* address prefix left alone
C16_Witness ==
    /\ s_outcome = "ok"
    /\ s_call.network_security_group = "" /\ s_call.route_table = ""
    /\ s_call.address_prefix = ""
    /\ ~s_instance.network_security_group.is_none /\ ~s_instance.route_table.is_none
    /\ s_result.network_security_group.is_none /\ s_result.route_table.is_none
    /\ s_result.address_prefix = s_instance.address_prefix

(***************************************************************************)
(* C17                                                                     *)
(***************************************************************************)
NamePresent(coll, name) == \E i \in 1..Len(coll) : coll[i].name = name

\* C17: starting from a collection whose entries have pairwise distinct names,
\* after any sequence of _upsert calls (key_name 'name', key_value the name of
\* the object) the entries still have pairwise distinct names, and the length
\* grows by one exactly for the calls whose key was not present before the
\* call: each call adds one entry if its name was absent and none otherwise,
\* so the length is the initial one plus the number of such calls.
C17_UpsertsKeepNamesDistinct ==
    /\ DistinctNames(k_coll)
    /\ k_calls > 0 =>
          Len(k_coll) = Len(k_prev) + (IF NamePresent(k_prev, k_call.name) THEN 0 ELSE 1)
    /\ Len(k_coll) = k_len0 + k_grown

\* after the last of the calls: some call added a name and the last one
\* replaced an entry
C17_Witness ==
    /\ k_calls = MaxCalls
    /\ k_grown > 0
    /\ NamePresent(k_prev, k_call.name)
    /\ Len(k_coll) = Len(k_prev)
    /\ k_coll # k_prev

(***************************************************************************)
(* C18                                                                     *)
(***************************************************************************)
\* the positions in the log of the create_or_update attempts for record set k
Attempts(k) ==
    {n \in 1..Len(i_log) :
        i_log[n].op = "record_sets.create_or_update" /\ i_log[n].set = k}

ZoneCreated ==
    /\ i_log # <<>>
    /\ i_log[1].op = "zones.create_or_update" /\ ~i_log[1].raised

\* C18 as stated: import_zone attempts every record set once and never
\* retries: the zone create_or_update precedes every record-set
\* create_or_update, no record set is attempted twice, and once the zone is
\* created the run ends only after each grouped record set has had exactly one
\* create_or_update attempt, whatever CloudErrors were raised on the way.
C18_AsStated ==
    /\ \A k \in 1..Len(i_sets) :
          /\ Cardinality(Attempts(k)) <= 1
          /\ Attempts(k) # {} => ZoneCreated
    /\ (ZoneCreated /\ i_pc \in {"done", "raised"}) =>
          \A k \in 1..Len(i_sets) : Cardinality(Attempts(k)) = 1

====
